---- MODULE Spec2Model ----
(***************************************************************************)
(* Ukkonen suffix-tree construction of src/main.rs: the packed position    *)
(* and reference encodings, the node arena, the cursor, the extension      *)
(* routine SuffixTree::update (one step per loop iteration) and the        *)
(* builder SuffixTree::from.                                               *)
(*                                                                         *)
(* Source indices are kept: node i of the arena is nodes[i] (0 = top,      *)
(* 1 = root) and byte i of the payload is PayloadAt(i) (0-based).          *)
(***************************************************************************)
EXTENDS Integers, Sequences, FiniteSets, TLC

VARIABLES
    payload,            \* SuffixTree.payload, the whole input, fixed at from()
    max_ind,            \* PackedRef::MAX_IND of this build (scaled, see MAX_IND)
    debug_assertions,   \* TRUE: debug build (debug_assert! checked); FALSE: release
    nodes,              \* SuffixTree.nodes, the arena: [0..len-1 -> Node]
    cur,                \* the Cursor threaded through the fold / update's `cur`
    new_end,            \* the fold position / update's new_end
    new_ch,             \* update's new_ch
    prev_insert_idx,    \* update's prev_insert_idx
    pc,                 \* "fold", "loop" (inside update's outer loop), "done", "failed"
    fail,               \* "none" or the panic that ended the build
    entry_nodes,        \* history: the arena as it was when the current update was entered
    enc_step,           \* encoding exerciser: "off", "input", "packed", "decoded", "rejected"
    enc_kind,           \* encoding exerciser: "Inner" or "Leaf"
    enc_arg,            \* encoding exerciser: the index / offset handed to from_inner / from_leaf
    enc_word,           \* encoding exerciser: the packed u32 produced
    enc_ref             \* encoding exerciser: the NodeRef decoded from enc_word

vars == <<payload, max_ind, debug_assertions, nodes, cur, new_end, new_ch,
          prev_insert_idx, pc, fail, entry_nodes, enc_step, enc_kind, enc_arg, enc_word, enc_ref>>

treeVars == <<payload, max_ind, debug_assertions, nodes, cur, new_end, new_ch,
              prev_insert_idx, pc, fail, entry_nodes>>

encVars == <<enc_step, enc_kind, enc_arg, enc_word, enc_ref>>

(***************************************************************************)
(* Bounds.                                                                 *)
(***************************************************************************)
\* Number of distinct byte values a payload may use (256 in the source).
NumBytes == 3
\* Longest payload of the exhaustive family.
MaxLen == 4
\* Longest tail appended to DeepPrefix in the deep family.
MaxTail == 5
\* Longest tail appended to LongPrefix in the long family.
MaxLongTail == 3
\* Width in bits of the packed words (32 in the source, scaled down).
U32Bits == 6
\* Largest reduced capacity a build is run under (capacity violations).
SmallCap == 3

Bytes == 0..(NumBytes - 1)

RECURSIVE Pow2(_)
Pow2(k) == IF k = 0 THEN 1 ELSE 2 * Pow2(k - 1)

\* std::u32::MAX at the scaled width.
U32_MAX == Pow2(U32Bits) - 1

\* PackedRef::MAX_IND = u32::MAX / 2.
MAX_IND == U32_MAX \div 2

\* u32::MAX of a build whose MAX_IND is max_ind (u32::MAX = 2*MAX_IND + 1).
PosMax == 2 * max_ind + 1

(***************************************************************************)
(* PackedPos, NodeRef, PackedRef.                                          *)
(***************************************************************************)
\* The result of an encoding call whose range assertion failed (a panic).
Rejected == -1

\* `x as u32`: truncation to the width of the packed word.
AsU32(x) == x % (PosMax + 1)

\* PackedPos::from: assert!(pos <= u32::MAX); PackedPos(pos as u32)
PackedPos_from(pos) == IF pos <= PosMax THEN AsU32(pos) ELSE Rejected

\* PackedPos::unpack
PackedPos_unpack(p) == p

\* PackedRef::from_inner: assert!(ind <= MAX_IND); Self((ind*2 + 0) as u32)
from_inner(ind) == IF ind <= max_ind THEN AsU32(ind * 2 + 0) ELSE Rejected

\* from_leaf without its range assertion: the offset is truncated by the cast.
from_leaf_unchecked(pos) == AsU32(pos * 2 + 1)

\* from_leaf that forgets the tag bit.
from_leaf_untagged(pos) == IF pos <= max_ind THEN AsU32(pos * 2 + 0) ELSE Rejected

\* PackedRef::from_leaf: assert!(pos <= MAX_IND); Self((pos*2 + 1) as u32)
from_leaf(pos) == IF pos <= max_ind THEN AsU32(pos * 2 + 1) ELSE Rejected

\* PackedRef::unpack: the tag is bit 0, the index the remaining bits.
unpack(r) == IF r % 2 = 0 THEN [tag |-> "Inner", ind |-> r \div 2]
                          ELSE [tag |-> "Leaf", ind |-> r \div 2]

\* PackedRef::is_none
is_none(r) == r = 0

(***************************************************************************)
(* Node.                                                                   *)
(***************************************************************************)
\* Node::new_special panics: one of its four encodings fails its range assertion.
Node_new_special_panics(begin, end, suffix_ind, child_ind) ==
    \/ PackedPos_from(begin) = Rejected
    \/ PackedPos_from(end) = Rejected
    \/ from_inner(suffix_ind) = Rejected
    \/ from_inner(child_ind) = Rejected

\* Node::new_special
Node_new_special(begin, end, suffix_ind, child_ind) ==
    [begin |-> PackedPos_from(begin),
     end |-> PackedPos_from(end),
     suffix |-> from_inner(suffix_ind),
     child |-> [c \in Bytes |-> from_inner(child_ind)]]

\* Node::new panics
Node_new_panics(begin, end, suffix_ind) == Node_new_special_panics(begin, end, suffix_ind, 0)

\* Node::new
Node_new(begin, end, suffix_ind) == Node_new_special(begin, end, suffix_ind, 0)

\* Node::label_len
label_len(n) == PackedPos_unpack(n.end) - PackedPos_unpack(n.begin)

\* self.nodes.len()
NodesLen(ns) == Cardinality(DOMAIN ns)

\* self.nodes.push(n)
Push(ns, n) == [i \in 0..NodesLen(ns) |-> IF i < NodesLen(ns) THEN ns[i] ELSE n]

\* self.payload[i], i a source (0-based) index
PayloadAt(i) == payload[i + 1]

(***************************************************************************)
(* Inputs.                                                                 *)
(***************************************************************************)
\* All byte strings of length at most n.
Seqs(n) == UNION {[1..k -> Bytes] : k \in 0..n}

\* "aabaaac": the payload every member of the deep family starts with.
DeepPrefix == <<0, 0, 1, 0, 0, 0, 2>>

\* "aabaaabbaaa": the payload every member of the long family starts with.
LongPrefix == <<0, 0, 1, 0, 0, 0, 1, 1, 0, 0, 0>>

\* The payloads a build is started on.
Payloads ==
    Seqs(MaxLen) \cup {DeepPrefix \o t : t \in Seqs(MaxTail)}
                \cup {LongPrefix \o t : t \in Seqs(MaxLongTail)}

\* The capacities a build is run under: reduced ones and the full one.
Capacities == (1..SmallCap) \cup {MAX_IND}

(***************************************************************************)
(* SuffixTree::update, canonicalization (the while loop).                  *)
(***************************************************************************)
\* self.nodes[cur.node].child[link_ch] with link_ch = self.payload[cur.pos]
link_ref == nodes[cur.node].child[PayloadAt(cur.pos)]

\* debug_assert!(idx != 0, ...) fails: the slot followed is the absent value.
CanonAssertFails ==
    /\ cur.pos < new_end
    /\ unpack(link_ref).tag = "Inner"
    /\ unpack(link_ref).ind = 0
    /\ debug_assertions

\* The loop takes the "descend into this node and keep going" branch.
CanonDescends ==
    /\ cur.pos < new_end
    /\ unpack(link_ref).tag = "Inner"
    /\ ~CanonAssertFails
    /\ ~(label_len(nodes[unpack(link_ref).ind]) > new_end - cur.pos)

\* The loop is left: its condition is false or one of its two breaks is taken.
CanonDone ==
    \/ ~(cur.pos < new_end)
    \/ unpack(link_ref).tag = "Leaf"
    \/ /\ unpack(link_ref).tag = "Inner"
       /\ ~CanonAssertFails
       /\ label_len(nodes[unpack(link_ref).ind]) > new_end - cur.pos

(***************************************************************************)
(* SuffixTree::update, the mid-edge lookup.                                *)
(***************************************************************************)
edge_select_ch == PayloadAt(cur.pos)

edge_ref == nodes[cur.node].child[edge_select_ch]

edge_label_begin ==
    IF unpack(edge_ref).tag = "Leaf"
    THEN unpack(edge_ref).ind
    ELSE PackedPos_unpack(nodes[unpack(edge_ref).ind].begin)

cur_label_pos == edge_label_begin + new_end - cur.pos

cur_label_ch == PayloadAt(cur_label_pos)

\* What stops the mid-edge lookup before the comparison: the debug assertion on
\* edge_ref, or the bounds check of self.payload[cur_label_pos].
MidEdgeFail ==
    IF debug_assertions /\ is_none(edge_ref) THEN "debug_assert_edge_ref"
    ELSE IF ~(cur_label_pos < Len(payload)) THEN "index_out_of_bounds"
    ELSE "none"

\* Rule 3: the new character is already present at the active point.
Present ==
    IF cur.pos = new_end
    THEN ~is_none(nodes[cur.node].child[new_ch])
    ELSE MidEdgeFail = "none" /\ new_ch = cur_label_ch

(***************************************************************************)
(* SuffixTree::update, the split and the insertion. Each operator returns  *)
(* [nodes, fail, idx]: the arena as the statements executed so far left    *)
(* it, the panic raised ("none" when none), and insert_node_idx.           *)
(***************************************************************************)
\* The split that forgets to transfer the existing node to the new one.
TransferChild_dropped(n, ch, moved) == n

\* n.child[cur_label_ch] = <the existing node, re-homed>
TransferChild(n, ch, moved) == [n EXCEPT !.child[ch] = moved]

\* self.nodes[idx].begin = PackedPos::from(cur_label_pos)
ShortenLabel(ns, idx, pos) == [ns EXCEPT ![idx].begin = PackedPos_from(pos)]

\* The new node linked under the slot of the new character instead of the
\* slot the edge was found in.
LinkNewNode_wrongSlot(ns, parent, ch, idx) == [ns EXCEPT ![parent].child[new_ch] = from_inner(idx)]

\* self.nodes[cur.node].child[edge_select_ch] = PackedRef::from_inner(new_node_idx)
LinkNewNode(ns, parent, ch, idx) == [ns EXCEPT ![parent].child[ch] = from_inner(idx)]

\* The split node created with the absent value as its suffix link.
NewSplitNode_nullLink(begin, end) == Node_new(begin, end, 0)

\* let mut n = Node::new(edge_label_begin, cur_label_pos, 1)
NewSplitNode(begin, end) == Node_new(begin, end, 1)

\* The reference the existing edge target is re-homed under: a leaf at
\* cur_label_pos, or the same inner node (Rejected when from_leaf panics).
RehomedRef(r, pos) == IF r.tag = "Leaf" THEN from_leaf(pos) ELSE from_inner(r.ind)

\* The else-branch "we need to split this edge".
Split(ns) ==
    LET r == unpack(edge_ref)
        n0 == NewSplitNode(edge_label_begin, cur_label_pos)
    IN  IF Node_new_panics(edge_label_begin, cur_label_pos, 1)
        THEN [nodes |-> ns, fail |-> "capacity", idx |-> 0]
        ELSE IF r.tag = "Leaf" /\ RehomedRef(r, cur_label_pos) = Rejected
        THEN [nodes |-> ns, fail |-> "capacity", idx |-> 0]
        ELSE
          LET ns1 == IF r.tag = "Inner" THEN ShortenLabel(ns, r.ind, cur_label_pos) ELSE ns
              moved == RehomedRef(r, cur_label_pos)
              n == TransferChild(n0, cur_label_ch, moved)
              new_node_idx == NodesLen(ns1)
              ns2 == Push(ns1, n)
          IN  IF moved = Rejected
              THEN [nodes |-> ns1, fail |-> "capacity", idx |-> 0]
              ELSE IF from_inner(new_node_idx) = Rejected
              THEN [nodes |-> ns2, fail |-> "capacity", idx |-> new_node_idx]
              ELSE [nodes |-> LinkNewNode(ns2, cur.node, edge_select_ch, new_node_idx),
                    fail |-> "none", idx |-> new_node_idx]

\* self.nodes[prev_insert_idx].suffix = PackedRef::from_inner(insert_node_idx)
UpdateSuffixLink(ns, prev, ins) == [ns EXCEPT ![prev].suffix = from_inner(ins)]

\* self.nodes[insert_node_idx].child[new_ch] = PackedRef::from_leaf(new_end)
AddLeaf(ns, ins, ch, pos) == [ns EXCEPT ![ins].child[ch] = from_leaf(pos)]

\* "Update the suffix links", "Add the new leaf", "Continue on to the next suffix".
LinkAndLeaf(st) ==
    IF st.fail # "none" THEN st
    ELSE IF from_inner(st.idx) = Rejected
    THEN [st EXCEPT !.fail = "capacity"]
    ELSE
      LET ns1 == UpdateSuffixLink(st.nodes, prev_insert_idx, st.idx)
      IN  IF debug_assertions /\ ~is_none(ns1[st.idx].child[new_ch])
          THEN [nodes |-> ns1, fail |-> "debug_assert_leaf_slot", idx |-> st.idx]
          ELSE IF from_leaf(new_end) = Rejected
          THEN [nodes |-> ns1, fail |-> "capacity", idx |-> st.idx]
          ELSE
            LET ns2 == AddLeaf(ns1, st.idx, new_ch, new_end)
            IN  IF unpack(ns2[cur.node].suffix).tag # "Inner"
                THEN [nodes |-> ns2, fail |-> "suffix_not_inner", idx |-> st.idx]
                ELSE [nodes |-> ns2, fail |-> "none", idx |-> st.idx]

\* One pass through the outer loop's body after canonicalization, when it
\* does not break.
Body ==
    IF cur.pos = new_end
    THEN LinkAndLeaf([nodes |-> nodes, fail |-> "none", idx |-> cur.node])
    ELSE IF MidEdgeFail # "none"
    THEN [nodes |-> nodes, fail |-> MidEdgeFail, idx |-> 0]
    ELSE LinkAndLeaf(Split(nodes))

(***************************************************************************)
(* Actions.                                                                *)
(***************************************************************************)
\* The state SuffixTree::from reaches after pushing the two sentinel nodes.
Sentinels == [i \in 0..1 |-> IF i = 0 THEN Node_new_special(0, 0, 0, 1)
                                      ELSE Node_new(0, 1, 0)]

InitTree ==
    /\ nodes = Sentinels
    /\ cur = [node |-> 1, pos |-> 0]
    /\ new_end = 0
    /\ new_ch = 0
    /\ prev_insert_idx = 0
    /\ pc = "fold"
    /\ fail = "none"
    /\ entry_nodes = nodes

Init ==
    /\ payload \in Payloads
    /\ max_ind \in Capacities
    /\ debug_assertions \in BOOLEAN
    /\ InitTree
    /\ enc_step = "off"
    /\ enc_kind = "Inner"
    /\ enc_arg = 0
    /\ enc_word = 0
    /\ enc_ref = unpack(0)

\* The fold calls st.update(curs, pos): the prologue of update.
StartUpdate ==
    /\ pc = "fold"
    /\ new_end < Len(payload)
    /\ pc' = "loop"
    /\ new_ch' = PayloadAt(new_end)
    /\ prev_insert_idx' = 0
    /\ entry_nodes' = nodes
    /\ UNCHANGED <<payload, max_ind, debug_assertions, nodes, cur, new_end, fail>>
    /\ UNCHANGED encVars

\* The fold is exhausted: from returns the tree.
Finish ==
    /\ pc = "fold"
    /\ new_end = Len(payload)
    /\ pc' = "done"
    /\ UNCHANGED <<payload, max_ind, debug_assertions, nodes, cur, new_end, new_ch,
                   prev_insert_idx, fail, entry_nodes>>
    /\ UNCHANGED encVars

\* One iteration of the canonicalization loop that descends.
CanonDescend ==
    /\ pc = "loop"
    /\ CanonDescends
    /\ cur' = [node |-> unpack(link_ref).ind,
               pos |-> cur.pos + label_len(nodes[unpack(link_ref).ind])]
    /\ UNCHANGED <<payload, max_ind, debug_assertions, nodes, new_end, new_ch,
                   prev_insert_idx, pc, fail, entry_nodes>>
    /\ UNCHANGED encVars

\* The debug assertion of the canonicalization loop fails.
CanonAbort ==
    /\ pc = "loop"
    /\ CanonAssertFails
    /\ pc' = "failed"
    /\ fail' = "debug_assert_canonicalize"
    /\ UNCHANGED <<payload, max_ind, debug_assertions, nodes, cur, new_end, new_ch,
                   prev_insert_idx, entry_nodes>>
    /\ UNCHANGED encVars

\* Rule 3: break out of the outer loop, update returns cur, the fold advances.
Rule3Stop ==
    /\ pc = "loop"
    /\ CanonDone
    /\ Present
    /\ pc' = "fold"
    /\ new_end' = new_end + 1
    /\ UNCHANGED <<payload, max_ind, debug_assertions, nodes, cur, new_ch,
                   prev_insert_idx, fail, entry_nodes>>
    /\ UNCHANGED encVars

\* The tail of a loop pass that inserted: the arena is updated and the
\* suffix link of cur.node followed.
Commit ==
    /\ Body.fail = "none"
    /\ nodes' = Body.nodes
    /\ prev_insert_idx' = Body.idx
    /\ cur' = [cur EXCEPT !.node = unpack(Body.nodes[cur.node].suffix).ind]
    /\ UNCHANGED <<payload, max_ind, debug_assertions, new_end, new_ch, pc, fail,
                   entry_nodes>>
    /\ UNCHANGED encVars

\* A leaf is inserted right below the active node.
InsertBelow ==
    /\ pc = "loop"
    /\ CanonDone
    /\ ~Present
    /\ cur.pos = new_end
    /\ Commit

\* The edge is split and the leaf inserted below the new node.
SplitEdge ==
    /\ pc = "loop"
    /\ CanonDone
    /\ ~Present
    /\ cur.pos # new_end
    /\ Commit

\* A loop pass panics: a range assertion of an encoding, a debug assertion,
\* a bounds check or the suffix-link panic. The arena keeps what the
\* statements before the panic did.
Abort ==
    /\ pc = "loop"
    /\ CanonDone
    /\ ~Present
    /\ Body.fail # "none"
    /\ nodes' = Body.nodes
    /\ pc' = "failed"
    /\ fail' = Body.fail
    /\ UNCHANGED <<payload, max_ind, debug_assertions, cur, new_end, new_ch,
                   prev_insert_idx, entry_nodes>>
    /\ UNCHANGED encVars

Next ==
    \/ StartUpdate
    \/ Finish
    \/ CanonDescend
    \/ CanonAbort
    \/ Rule3Stop
    \/ InsertBelow
    \/ SplitEdge
    \/ Abort

Spec == Init /\ [][Next]_vars

(***************************************************************************)
(* The encoding on its own: one index or offset is packed by from_inner or *)
(* from_leaf and the word unpacked again.                                  *)
(***************************************************************************)
\* The indices and offsets tried: the whole range of the packed word and beyond.
EncInputs == 0..(U32_MAX + 2)

InitEnc ==
    /\ payload = <<>>
    /\ max_ind = MAX_IND
    /\ debug_assertions = TRUE
    /\ InitTree
    /\ enc_step = "input"
    /\ enc_kind \in {"Inner", "Leaf"}
    /\ enc_arg \in EncInputs
    /\ enc_word = 0
    /\ enc_ref = unpack(0)

\* PackedRef::from_inner(enc_arg) or PackedRef::from_leaf(enc_arg)
EncodeArg == IF enc_kind = "Inner" THEN from_inner(enc_arg) ELSE from_leaf(enc_arg)

\* The encoding call returns a packed word.
EncPack ==
    /\ enc_step = "input"
    /\ EncodeArg # Rejected
    /\ enc_step' = "packed"
    /\ enc_word' = EncodeArg
    /\ UNCHANGED <<enc_kind, enc_arg, enc_ref>>
    /\ UNCHANGED treeVars

\* The encoding call panics on its range assertion.
EncReject ==
    /\ enc_step = "input"
    /\ EncodeArg = Rejected
    /\ enc_step' = "rejected"
    /\ UNCHANGED <<enc_kind, enc_arg, enc_word, enc_ref>>
    /\ UNCHANGED treeVars

\* PackedRef::unpack of the packed word.
EncUnpack ==
    /\ enc_step = "packed"
    /\ enc_step' = "decoded"
    /\ enc_ref' = unpack(enc_word)
    /\ UNCHANGED <<enc_kind, enc_arg, enc_word>>
    /\ UNCHANGED treeVars

NextEnc ==
    \/ EncPack
    \/ EncReject
    \/ EncUnpack

SpecEnc == InitEnc /\ [][NextEnc]_vars

(***************************************************************************)
(* Reading the tree, as print_rec does: from the root, through the         *)
(* occupied child slots, a leaf's label running to the end of the payload. *)
(***************************************************************************)
\* payload[b..e)
Slice(b, e) == SubSeq(payload, b + 1, e)

\* The label of the edge into inner node j: payload[begin..end)
InnerLabel(ns, j) == Slice(PackedPos_unpack(ns[j].begin), PackedPos_unpack(ns[j].end))

\* The label of a leaf: payload[pos..cur_end) with cur_end = payload.len()
LeafLabel(pos) == Slice(pos, Len(payload))

\* The occupied child slots of node i: for r in n.child.iter() { if !r.is_none() ...
Occupied(ns, i) == {c \in Bytes : ~is_none(ns[i].child[c])}

\* The leaves below inner node i, whose path from the root spells pre: each
\* with its parent, its slot, the offset in its reference and the string its
\* path from the root spells. depth bounds the recursion.
RECURSIVE LeavesBelow(_, _, _, _)
LeavesBelow(ns, i, pre, depth) ==
    UNION { LET r == unpack(ns[i].child[c])
            IN  IF r.tag = "Leaf"
                THEN {[parent |-> i, slot |-> c, off |-> r.ind, str |-> pre \o LeafLabel(r.ind)]}
                ELSE IF depth = 0 THEN {}
                ELSE LeavesBelow(ns, r.ind, pre \o InnerLabel(ns, r.ind), depth - 1)
          : c \in Occupied(ns, i) }

\* The inner nodes at and below inner node i, each with the string its path spells.
RECURSIVE InnerBelow(_, _, _, _)
InnerBelow(ns, i, pre, depth) ==
    {[node |-> i, str |-> pre]} \cup
    UNION { LET r == unpack(ns[i].child[c])
            IN  IF r.tag = "Leaf" \/ depth = 0 THEN {}
                ELSE InnerBelow(ns, r.ind, pre \o InnerLabel(ns, r.ind), depth - 1)
          : c \in Occupied(ns, i) }

\* self.print(): the walk starts at NodeRef::Inner(1).
Leaves == LeavesBelow(nodes, 1, <<>>, NodesLen(nodes))

InnerNodes == InnerBelow(nodes, 1, <<>>, NodesLen(nodes))

\* The non-empty suffixes payload[i..n) of the payload.
Suffixes == {LeafLabel(i) : i \in 0..(Len(payload) - 1)}

\* The last byte of the payload occurs nowhere else in it.
LastByteUnique ==
    /\ Len(payload) > 0
    /\ \A i \in 1..(Len(payload) - 1) : payload[i] # payload[Len(payload)]

\* A phase is complete: update has returned (the fold is between calls or over).
PhaseComplete == pc \in {"fold", "done"}

\* The build runs at the full capacity of the encoding.
FullCapacity == max_ind = MAX_IND

(***************************************************************************)
(* Claims.                                                                 *)
(***************************************************************************)

\* C1 (as claimed): when the last byte of the payload occurs nowhere else in
\* it, the finished tree has exactly n leaves and the strings spelled by the
\* paths from the root to the leaves are the n non-empty suffixes of the
\* payload, each once.
C1_LeavesAreTheSuffixes ==
    (pc = "done" /\ LastByteUnique) =>
        /\ Cardinality(Leaves) = Len(payload)
        /\ {l.str : l \in Leaves} = Suffixes

\* C2 (as claimed): in the finished tree the path from the root to a leaf
\* spells the suffix of the payload that the leaf stands for: payload[off..n)
\* with off the offset held in the leaf reference or, that offset being where
\* the leaf's own label starts, payload[off - d..n) with d the length of the
\* string its parent spells (the suffix of the payload as long as the path).
C2_LeafPathIsItsSuffix ==
    pc = "done" =>
        \A l \in Leaves :
            \/ l.str = LeafLabel(l.off)
            \/ /\ Len(l.str) <= Len(payload)
               /\ l.str = LeafLabel(Len(payload) - Len(l.str))

\* C3 (as claimed): after every completed phase, the suffix link of every
\* inner node of index >= 2 whose path spells cX resolves to the inner node
\* whose path spells X.
C3_SuffixLinksDropFirstByte ==
    PhaseComplete =>
        \A x \in InnerNodes :
            (x.node >= 2 /\ Len(x.str) >= 1) =>
                /\ unpack(nodes[x.node].suffix).tag = "Inner"
                /\ [node |-> unpack(nodes[x.node].suffix).ind, str |-> Tail(x.str)] \in InnerNodes

\* Following suffix links from inner node i reaches the root in at most k steps.
RECURSIVE ReachesRoot(_, _)
ReachesRoot(i, k) ==
    \/ i = 1
    \/ /\ i # 0
       /\ k > 0
       /\ unpack(nodes[i].suffix).tag = "Inner"
       /\ ReachesRoot(unpack(nodes[i].suffix).ind, k - 1)

\* C4: in the finished tree, following suffix links from any inner node other
\* than the top sentinel reaches the root in at most n steps.
C4_SuffixChainsReachRoot ==
    pc = "done" => \A i \in 1..(NodesLen(nodes) - 1) : ReachesRoot(i, Len(payload))

\* C4 witness: a finished tree with a suffix link between two nodes other
\* than the sentinels, so that a chain takes two steps to the root.
C4_Witness ==
    /\ pc = "done"
    /\ \E i \in 2..(NodesLen(nodes) - 1) : unpack(nodes[i].suffix).ind >= 2

\* C5: when the last byte of the payload occurs nowhere else in it, every
\* inner node of the finished tree other than the root has at least two
\* occupied child slots.
C5_NoUnaryInnerNode ==
    (pc = "done" /\ LastByteUnique) =>
        \A i \in 2..(NodesLen(nodes) - 1) : Cardinality(Occupied(nodes, i)) >= 2

\* C5 witness: a finished tree of a terminator-ended payload with an inner
\* node created by a split.
C5_Witness ==
    /\ pc = "done"
    /\ LastByteUnique
    /\ NodesLen(nodes) > 2

\* The first byte of the label of the child that reference r denotes.
FirstLabelByte(r) ==
    IF unpack(r).tag = "Leaf"
    THEN PayloadAt(unpack(r).ind)
    ELSE PayloadAt(PackedPos_unpack(nodes[unpack(r).ind].begin))

\* C10: after every completed phase, an occupied child slot c of a node other
\* than the top sentinel holds a child whose label begins with byte c; the
\* children of the top sentinel are all Inner(1) and the root's range is (0, 1).
C10_SlotsKeyedByFirstByte ==
    PhaseComplete =>
        /\ \A i \in 1..(NodesLen(nodes) - 1) :
               \A c \in Occupied(nodes, i) : FirstLabelByte(nodes[i].child[c]) = c
        /\ \A c \in Bytes : unpack(nodes[0].child[c]) = [tag |-> "Inner", ind |-> 1]
        /\ PackedPos_unpack(nodes[1].begin) = 0
        /\ PackedPos_unpack(nodes[1].end) = 1

\* C10 witness: a phase is complete in which an edge into an inner node was
\* split and that node re-homed under the new one.
C10_Witness ==
    /\ PhaseComplete
    /\ \E i \in 2..(NodesLen(nodes) - 1) :
           \E c \in Occupied(nodes, i) :
               /\ unpack(nodes[i].child[c]).tag = "Inner"
               /\ unpack(nodes[i].child[c]).ind < i

\* C6 (as claimed): when a range assertion fails, the current update call has
\* changed no node field and no arena length.
C6_NoMutationBeforeCapacityFailure ==
    fail = "capacity" => nodes = entry_nodes

\* Reference r holds a value that was really encoded: a leaf offset no larger
\* than the capacity and the current position, an index of an arena node.
RefInRange(r) ==
    IF unpack(r).tag = "Leaf"
    THEN unpack(r).ind <= max_ind /\ unpack(r).ind <= new_end
    ELSE unpack(r).ind <= max_ind /\ unpack(r).ind < NodesLen(nodes)

\* C6 (amended): a capacity violation is raised by the range assertion before
\* the out-of-range value is encoded or stored: every stored reference holds
\* a value that was in range, the failure means a value above the capacity
\* was about to be encoded, and no extension completes at a position above
\* the capacity. (Earlier statements of the same update call may already
\* have changed the arena.)
C6_CapacityFailFast ==
    /\ \A i \in DOMAIN nodes :
           /\ RefInRange(nodes[i].suffix)
           /\ \A c \in Bytes : RefInRange(nodes[i].child[c])
    /\ fail = "capacity" => (new_end > max_ind \/ NodesLen(nodes) - 1 > max_ind)
    /\ (pc = "loop" /\ prev_insert_idx # 0) => new_end <= max_ind

\* C6 witness: a range assertion has failed after the current update call
\* changed the arena.
C6_Witness ==
    /\ fail = "capacity"
    /\ nodes # entry_nodes

\* C7 (as claimed): every index or offset up to MAX_IND is packed and decoded
\* back exactly, every larger one is rejected, and the packed word of any
\* Inner(i) or Leaf(i) is distinct from the absent value.
C7_EncodingIsExactThreeWay ==
    /\ enc_step \in {"packed", "decoded"} => enc_arg <= MAX_IND
    /\ enc_step = "rejected" => enc_arg > MAX_IND
    /\ enc_step = "decoded" => enc_ref = [tag |-> enc_kind, ind |-> enc_arg]
    /\ enc_step \in {"packed", "decoded"} => ~is_none(enc_word)

\* C7 (amended): as claimed, except that the absent value is the packed word
\* of Inner(0): the packed word is distinct from the absent value for every
\* Leaf(i) and for every Inner(i) with i >= 1, and only for those.
C7_EncodingIsExactNoneIsInnerZero ==
    /\ enc_step \in {"packed", "decoded"} => enc_arg <= MAX_IND
    /\ enc_step = "rejected" => enc_arg > MAX_IND
    /\ enc_step = "decoded" => enc_ref = [tag |-> enc_kind, ind |-> enc_arg]
    /\ enc_step \in {"packed", "decoded"} =>
           (is_none(enc_word) <=> (enc_kind = "Inner" /\ enc_arg = 0))

\* C7 witness: the largest offset has been packed as a leaf and decoded.
C7_Witness ==
    /\ enc_step = "decoded"
    /\ enc_kind = "Leaf"
    /\ enc_arg = MAX_IND

\* The panics that are internal-consistency failures.
ConsistencyFailures ==
    {"debug_assert_canonicalize", "debug_assert_edge_ref", "debug_assert_leaf_slot",
     "suffix_not_inner", "index_out_of_bounds"}

\* C8 (as claimed): within the capacity no internal-consistency failure is
\* reachable: no such panic is raised, canonicalization never looks up an
\* absent child below the top sentinel, the mid-edge reference is never
\* absent and cur_label_pos is inside the payload, and every suffix link
\* other than the top sentinel's decodes to an inner node of the arena.
C8_NoConsistencyFailure ==
    FullCapacity =>
        /\ fail \notin ConsistencyFailures
        /\ (pc = "loop" /\ cur.pos < new_end /\ cur.node # 0) => ~is_none(link_ref)
        /\ (pc = "loop" /\ cur.pos < new_end /\ CanonDone) =>
               (~is_none(edge_ref) /\ cur_label_pos < Len(payload))
        /\ \A i \in 1..(NodesLen(nodes) - 1) :
               /\ unpack(nodes[i].suffix).tag = "Inner"
               /\ unpack(nodes[i].suffix).ind < NodesLen(nodes)

\* C9 (as claimed): every call of update ends in a Rule-3 stop with
\* 0 <= cur.pos <= new_end throughout, and from ends after exactly
\* payload.len() phases: within the capacity the build never stops anywhere
\* but at the end of the fold.
C9_EveryUpdateReachesRule3 ==
    FullCapacity =>
        /\ 0 <= cur.pos
        /\ cur.pos <= new_end
        /\ pc = "done" => new_end = Len(payload)
        /\ pc = "done" \/ ENABLED Next

====
